---- MODULE Spec2Model ----
(***************************************************************************)
(* State-machine model of cruxupdater.py: the port-update pipeline of the  *)
(* CRUX updater.  One action per external interaction of main() and of the *)
(* functions it calls; pure list processing is modelled by operators.      *)
(*                                                                         *)
(* Optional values (Python None) are sequences of length <= 1:             *)
(*   <<>> is None, <<v>> is the value v.  A port directory is <<>> (None)  *)
(*   or the pair <<root, name>> standing for os.path.join(root, name).     *)
(***************************************************************************)
EXTENDS Integers, Sequences, FiniteSets, TLC

\* ------------------------------------------------------------------ bounds
MaxPorts == 2      \* longest resolved outdated set
MaxN == 2          \* largest value given to -n
MaxLines == 2      \* longest free-form output of the diff query that is parsed

\* --------------------------------------------------------------- universe
\* prt-get diff lists ports in name order, each installed port once: a resolved
\* set is a run of distinct names, here the first k of AllNames.  The names
\* given to --skip and --list are any of the first MaxPorts names.
AllNames == <<"pkgA", "pkgB", "pkgC", "pkgD", "pkgE">>
PortNames == {AllNames[i] : i \in 1..MaxPorts}

None == <<>>
Some(v) == <<v>>

\* A PortRecord (port_name, installed_version, available_version).
Record(n) == <<n, "1.0", "1.1">>

Min(a, b) == IF a < b THEN a ELSE b

Range(s) == {s[i] : i \in 1..Len(s)}

\* ------------------------------------------------------- get_outdated_ports
\* The text of the diff query is a sequence of lines (the pieces between
\* newlines); a line is its whitespace-separated tokens and whether it begins
\* with whitespace.  Trailing whitespace plays no part in the parsing.
Line(indent, tokens) == [indent |-> indent, tokens |-> tokens]
BlankLine == Line(FALSE, <<>>)
IsBlank(line) == line.tokens = <<>>

\* line 34: raw_output = result.stdout.strip(); line 38: .split('\n').
\* Leading and trailing blank lines go, and so does the leading whitespace
\* of the first line left; an all-blank text gives the one line ''.
RECURSIVE DropLeadingBlank(_)
DropLeadingBlank(text) ==
    IF text = <<>> THEN <<>>
    ELSE IF IsBlank(text[1]) THEN DropLeadingBlank(SubSeq(text, 2, Len(text)))
    ELSE text

RECURSIVE DropTrailingBlank(_)
DropTrailingBlank(text) ==
    IF text = <<>> THEN <<>>
    ELSE IF IsBlank(text[Len(text)]) THEN DropTrailingBlank(SubSeq(text, 1, Len(text) - 1))
    ELSE text

StripAndSplit(text) ==
    LET core == DropTrailingBlank(DropLeadingBlank(text))
    IN IF core = <<>> THEN <<BlankLine>>
       ELSE <<Line(FALSE, core[1].tokens)>> \o SubSeq(core, 2, Len(core))

\* line 41: the prefixes of header and separator lines
HeaderPrefixes == {"Port", "Differences", "====", "---"}

\* line 41: line.startswith(('Port', 'Differences', '====', '---')), on the
\* line as split, leading whitespace included.  Tokens are taken whole here:
\* a token starts with a prefix when it is one.
StartsWithHeaderPrefix(line) ==
    ~line.indent /\ ~IsBlank(line) /\ line.tokens[1] \in HeaderPrefixes

\* Mutant: the header test is made on the line with its whitespace stripped.
IsDataLine_StrippedTest(line) ==
    ~IsBlank(line) /\ line.tokens[1] \notin HeaderPrefixes

\* line 41: line.strip() and not line.startswith(...)
IsDataLine(line) == ~IsBlank(line) /\ ~StartsWithHeaderPrefix(line)

\* lines 42-48: the record of a data line, none when it has under 3 fields
RecordsOfLine(line) ==
    IF IsDataLine(line) /\ Len(line.tokens) >= 3
    THEN <<<<line.tokens[1], line.tokens[2], line.tokens[3]>>>>
    ELSE <<>>

\* lines 37-51: the loop over the lines
RECURSIVE ParseLines(_)
ParseLines(lines) ==
    IF lines = <<>> THEN <<>>
    ELSE RecordsOfLine(lines[1]) \o ParseLines(SubSeq(lines, 2, Len(lines)))

\* lines 26-51: rc and text are the exit status and stdout of prt-get diff
get_outdated_ports(rc, text) ==
    IF rc # 0 THEN <<>> ELSE ParseLines(StripAndSplit(text))

\* What prt-get diff prints for the outdated ports `names`: a title, a blank
\* line, the column header, a blank line, and one row per port.
DiffText(names) ==
    <<Line(FALSE, <<"Differences", "between", "installed", "packages", "and",
                    "ports", "tree:">>),
      BlankLine,
      Line(FALSE, <<"Port", "Installed", "Available", "in", "the", "ports", "tree">>),
      BlankLine>>
    \o [i \in 1..Len(names) |-> Line(FALSE, Record(names[i]))]

\* The outputs of the diff query in a run: the first k names, k <= MaxPorts.
DiffOutputs == {DiffText(SubSeq(AllNames, 1, k)) : k \in 0..MaxPorts}

\* Free-form outputs, for the parsing alone: up to MaxLines lines of 0, 2, 3
\* or 4 tokens, indented or not.
Tokens == {"Port", "pkgA", "1.1"}
FreeLines ==
    {Line(ind, toks) : ind \in BOOLEAN,
                       toks \in {<<>>} \cup (Tokens \X Tokens) \cup (Tokens \X Tokens \X Tokens)}
    \cup {Line(FALSE, <<"pkgA", "1.0", "1.1", "extra">>)}
FreeTexts == UNION {[1..k -> FreeLines] : k \in 0..MaxLines}

\* ------------------------------------------------------- find_port_directory
possible_dirs ==
    <<"/usr/ports/core", "/usr/ports/opt", "/usr/ports/contrib",
      "/usr/ports/xfce", "/usr/ports/xorg", "/usr/ports/xfce4">>

\* existing: the set of roots under which os.path.isdir(root/port_name) holds.
RECURSIVE ProbeFrom(_, _, _)
ProbeFrom(i, port_name, existing) ==
    IF i > Len(possible_dirs) THEN None
    ELSE IF possible_dirs[i] \in existing THEN <<possible_dirs[i], port_name>>
    ELSE ProbeFrom(i + 1, port_name, existing)

\* Mutant: the first root of the list is not probed.
find_port_directory_FromSecondRoot(port_name, existing) ==
    ProbeFrom(2, port_name, existing)

find_port_directory(port_name, existing) == ProbeFrom(1, port_name, existing)

\* ------------------------------------------------------------ main: filters
\* Mutant: the skip list is not applied.
FilterSkip_NotApplied(ports, skip) == ports

\* line 178: [port for port in outdated_ports if port[0] not in args.skip]
FilterSkip(ports, skip) == SelectSeq(ports, LAMBDA p : p[1] \notin skip)

\* Mutant: the explicit list is not applied.
FilterList_NotApplied(ports, list) == ports

\* lines 181-182: applied only when --list was given
FilterList(ports, list) ==
    IF list = None THEN ports
    ELSE SelectSeq(ports, LAMBDA p : p[1] \in list[1])

\* line 185: args.n if args.n else len(ports_to_update)  (None and 0 are falsy)
NumPortsToUpdate(ports, n) ==
    IF n # None /\ n[1] # 0 THEN n[1] ELSE Len(ports)

\* line 186: ports_to_update[:num_ports_to_update]
Truncate(ports, n) == SubSeq(ports, 1, Min(NumPortsToUpdate(ports, n), Len(ports)))

PortsToUpdate(ports, skip, list, n) ==
    Truncate(FilterList(FilterSkip(ports, skip), list), n)

\* ------------------------------------------------------------ main: summary
\* lines 200-205
Status(port_name, skip, list, updated) ==
    IF port_name \in skip THEN "Skipped"
    ELSE IF list # None /\ port_name \notin list[1] THEN "Not in list"
    ELSE IF port_name \in updated THEN "Updated"
    ELSE "Failed"

\* Mutant: the summary is built over the survivors of --skip only.
SummaryTable_OverSurvivors(ports, skip, list, updated) ==
    LET kept == SelectSeq(ports, LAMBDA p : p[1] \notin skip)
    IN [i \in 1..Len(kept) |-> <<kept[i][1], Status(kept[i][1], skip, list, updated)>>]

\* lines 198-206: one row per record of outdated_ports, in order
SummaryTable(ports, skip, list, updated) ==
    [i \in 1..Len(ports) |-> <<ports[i][1], Status(ports[i][1], skip, list, updated)>>]


\* ------------------------------------------------------------------- state
VARIABLES
    args_n,            \* -n: None or Some(integer)
    args_skip,         \* --skip: set of names (default empty)
    args_list,         \* --list: None or Some(set of names)
    args_skip_md5,     \* --skip-md5
    outdated_ports,    \* result of get_outdated_ports()
    ports_to_update,   \* the survivors of the filters
    idx,               \* position of the for loop of line 190 in ports_to_update
    updated_ports,     \* names whose update_port returned True
    summary_table,     \* rows (port_name, status), header row left out
    report_file,       \* None, or Some(rows written to the report file)
    diff_rc,           \* exit status of prt-get diff
    stdout,            \* output of prt-get diff
    pc,                \* control point
    port_dir,          \* update_port: located directory of the current port
    isdir,             \* roots under which the current port has a directory
    cwd,               \* process-wide current working directory
    caller,            \* who called update_pkgfile_with_new_md5
    pkg_file,          \* update_port: path handed to pkgadd
    ret,               \* return value of the last finished update_port call
    found_in,          \* history: "pkg" or "." - where the chosen artifact was listed
    listed,            \* history: what the artifact lookup just done has listed
    calls,             \* history: places of the steps invoked for the current port
    last,              \* history: outcome of the latest step
    entered,           \* history: names for which update_port was called, in order
    passed,            \* history: steps of the current port that succeeded
    all_ok             \* history: names whose every step succeeded

vars == <<args_n, args_skip, args_list, args_skip_md5, outdated_ports,
          ports_to_update, idx, updated_ports, summary_table, report_file, diff_rc,
          stdout, pc,
          port_dir, isdir, cwd, caller, pkg_file, ret, found_in, listed, calls, last,
          entered, passed, all_ok>>

args == <<args_n, args_skip, args_list, args_skip_md5>>
diffv == <<diff_rc, stdout>>
mainv == <<outdated_ports, ports_to_update, summary_table, report_file, diffv>>

AllSteps == {"locate", "checksum", "source", "build", "artifact", "install"}

ExitCodes == {0, 1}

port_name == ports_to_update[idx][1]

\* The outcome of a step: the place of the call (at), its exit status, and
\* whether its stderr carries both "Source file" and "not found" (line 71).
Call(at, rc, missing) == [at |-> at, rc |-> rc, missing |-> missing]
NoCall == Call("none", 0, FALSE)

\* No directory has been listed.
NoListing == [pkg |-> None, dir |-> None]

\* The roots under which the file system may hold a directory of a port.
ProbedRoots == {"/usr/ports/opt", "/usr/ports/contrib"}

\* The external command run at each place.
Cmd(at) ==
    CASE at \in {"um", "um_retry"} -> "pkgmk -um"
      [] at \in {"um_d", "d", "d_retry"} -> "pkgmk -d"
      [] at = "build" -> "sudo pkgmk -if"
      [] at = "install" -> "sudo pkgadd -u"
      [] OTHER -> "none"

Init ==
    /\ args_n \in {None} \cup {Some(k) : k \in 0..MaxN}
    /\ args_skip \in SUBSET PortNames
    /\ args_list \in {None} \cup {Some(S) : S \in (SUBSET PortNames) \ {{}}}
    /\ args_skip_md5 \in BOOLEAN
    /\ outdated_ports = <<>>
    /\ ports_to_update = <<>>
    /\ idx = 1
    /\ updated_ports = <<>>
    /\ summary_table = <<>>
    /\ report_file = None
    /\ diff_rc = 0
    /\ stdout = <<>>
    /\ pc = "main"
    /\ port_dir = None
    /\ isdir = {}
    /\ cwd = None
    /\ caller = "update_port"
    /\ pkg_file = None
    /\ ret = FALSE
    /\ found_in = ""
    /\ listed = NoListing
    /\ calls = <<>>
    /\ last = NoCall
    /\ entered = <<>>
    /\ passed = {}
    /\ all_ok = {}

\* --------------------------------------------------------------------- main
\* Mutant: main goes on with an empty resolved set.
AfterResolve_GoOn(resolved) == "loop"

\* lines 167-169: main returns at once when nothing is outdated.
AfterResolve(resolved) == IF resolved = <<>> THEN "exit" ELSE "loop"

\* lines 166-188: resolve the outdated set, stop when it is empty, else filter.
\* rc is the exit status of prt-get diff, names the data rows of its output.
GetOutdatedPorts ==
    /\ pc = "main"
    /\ \E rc \in ExitCodes, text \in DiffOutputs :
         LET resolved == get_outdated_ports(rc, text)
         IN /\ diff_rc' = rc
            /\ stdout' = text
            /\ outdated_ports' = resolved
            /\ pc' = AfterResolve(resolved)
            /\ ports_to_update' =
                 IF resolved = <<>> THEN <<>>
                 ELSE PortsToUpdate(resolved, args_skip, args_list, args_n)
    /\ UNCHANGED <<args, idx, updated_ports, summary_table, report_file, port_dir, isdir,
                   cwd, caller, pkg_file, ret, found_in, listed, calls, last,
                   entered, passed, all_ok>>

\* Mutant: a failed port ends the loop (a break after the first failure).
Return_AbortOnFailure(value) ==
    /\ ret' = value
    /\ updated_ports' = IF value THEN Append(updated_ports, ports_to_update[idx][1])
                        ELSE updated_ports
    /\ all_ok' = IF passed' = {"locate", "checksum", "source", "build", "artifact", "install"}
                 THEN all_ok \cup {ports_to_update[idx][1]} ELSE all_ok
    /\ idx' = IF value THEN idx + 1 ELSE Len(ports_to_update) + 1
    /\ pc' = "loop"

\* update_port returns `value` to the loop of lines 190-195.
Return(value) ==
    /\ ret' = value
    /\ updated_ports' = IF value THEN Append(updated_ports, port_name)
                        ELSE updated_ports
    /\ all_ok' = IF passed' = AllSteps THEN all_ok \cup {port_name} ELSE all_ok
    /\ idx' = idx + 1
    /\ pc' = "loop"

\* Where update_port goes after a located directory (lines 113-117).
ChecksumStep(skip_md5) == IF skip_md5 THEN "skip_md5_check" ELSE "um"

\* Mutant: the working directory is changed for the first located port only.
Chdir_OnceOnly(dir) == IF cwd = None THEN dir ELSE cwd

\* line 112: the working directory after os.chdir(port_dir)
Chdir(dir) == dir

\* lines 190-194 and 108-112: next survivor, locate its directory, chdir.
UpdatePortLocateIn(roots) ==
    /\ pc = "loop"
    /\ idx <= Len(ports_to_update)
    /\ entered' = Append(entered, port_name)
    /\ pkg_file' = None
    /\ found_in' = ""
    /\ listed' = NoListing
    /\ caller' = "update_port"
    /\ \E existing \in SUBSET roots :
         LET dir == find_port_directory(port_name, existing)
         IN /\ port_dir' = dir
            /\ isdir' = existing
            /\ calls' = <<"find">>
            /\ last' = Call("find", IF dir = None THEN 1 ELSE 0, FALSE)
            /\ IF dir = None
               THEN /\ passed' = {}
                    /\ cwd' = cwd
                    /\ Return(FALSE)
               ELSE /\ passed' = {"locate"}
                    /\ cwd' = Chdir(dir)
                    /\ pc' = ChecksumStep(args_skip_md5)
                    /\ UNCHANGED <<ret, updated_ports, all_ok, idx>>
    /\ UNCHANGED <<args, mainv>>

\* In a run the directories are probed under ProbedRoots.
UpdatePortLocate == UpdatePortLocateIn(ProbedRoots)

\* lines 197-208: the summary over the original resolved set.
Summary ==
    /\ pc = "loop"
    /\ idx > Len(ports_to_update)
    /\ summary_table' =
         SummaryTable(outdated_ports, args_skip, args_list, Range(updated_ports))
    /\ pc' = "report"
    /\ UNCHANGED <<args, diffv, outdated_ports, ports_to_update, idx, updated_ports,
                   report_file, port_dir, isdir, cwd, caller, pkg_file, ret, found_in,
                   listed, calls, last, entered, passed, all_ok>>

\* lines 211-215: write the report file.
SaveReport ==
    /\ pc = "report"
    /\ report_file' = Some(summary_table)
    /\ pc' = "done"
    /\ UNCHANGED <<args, diffv, outdated_ports, ports_to_update, idx, updated_ports,
                   summary_table, port_dir, isdir, cwd, caller, pkg_file, ret, found_in,
                   listed, calls, last, entered, passed, all_ok>>


\* ------------------------------------------------------------ pipeline steps
\* What no step of update_port after the locate changes.
PipeFrame == UNCHANGED <<args, mainv, port_dir, isdir, cwd, entered>>

Stay(next) ==
    /\ pc' = next
    /\ UNCHANGED <<ret, updated_ports, all_ok, idx>>

\* Continue at a place of the pipeline, or leave update_port.
Goto(target) ==
    IF target = "return_false" THEN Return(FALSE)
    ELSE IF target = "return_true" THEN Return(TRUE)
    ELSE Stay(target)

Log(at, rc, missing) ==
    /\ calls' = Append(calls, at)
    /\ last' = Call(at, rc, missing)

\* update_pkgfile_with_new_md5 returned `ok` to `who`:
\* update_port lines 116-120, check_and_download_source lines 98-100.
AfterReconcile(ok, who) ==
    IF ~ok THEN "return_false"
    ELSE IF who = "update_port" THEN "d"
    ELSE "d_retry"

\* lines 65-71 and 90-91: the first pkgmk -um.  Only stderr is looked at.
AfterUm(rc, missing, who) ==
    IF missing THEN "um_d" ELSE AfterReconcile(TRUE, who)

\* Mutant: the checksum update is retried whatever the download returned.
AfterUmDownload_RetryAnyway(rc, who) == "um_retry"

\* lines 75-78 and 86-88: pkgmk -d inside update_pkgfile_with_new_md5.
AfterUmDownload(rc, who) ==
    IF rc = 0 THEN "um_retry" ELSE AfterReconcile(FALSE, who)

\* Mutant: a failed retry of pkgmk -um is retried again.
AfterUmRetry_Again(rc, who) ==
    IF rc # 0 THEN "um_retry" ELSE AfterReconcile(TRUE, who)

\* lines 80-85 and 90-91: the retried pkgmk -um.
AfterUmRetry(rc, who) ==
    IF rc # 0 THEN AfterReconcile(FALSE, who) ELSE AfterReconcile(TRUE, who)

\* Mutant: after a failed download the second download is tried at once,
\* without the reconcile in between.
AfterDownload_NoReconcile(rc) == IF rc # 0 THEN "d_retry" ELSE "build"

\* lines 95-98: the first pkgmk -d of check_and_download_source.
AfterDownload(rc) == IF rc # 0 THEN "um" ELSE "build"

\* lines 100-105: its second pkgmk -d.
AfterDownloadRetry(rc) == IF rc # 0 THEN "return_false" ELSE "build"

\* Mutant: the exit status of the build is not checked.
AfterBuild_ExitIgnored(rc) == "artifact"

\* lines 124-127
AfterBuild(rc) == IF rc # 0 THEN "return_false" ELSE "artifact"

\* Mutant: a failed install sends the port back to the build.
AfterInstall_BuildAgain(rc) == IF rc # 0 THEN "build" ELSE "return_true"

\* lines 150-156
AfterInstall(rc) == IF rc # 0 THEN "return_false" ELSE "return_true"

\* The checksum step of update_port counts as passed when it hands over to
\* check_and_download_source.
ChecksumPassed(next) ==
    IF caller = "update_port" /\ next = "d" THEN {"checksum"} ELSE {}

\* line 114: skip_md5_check(port_dir) rewrites the Pkgfile; its result is not used.
SkipMd5Check ==
    /\ pc = "skip_md5_check"
    /\ Log("skip_md5_check", 0, FALSE)
    /\ passed' = passed \cup {"checksum"}
    /\ Stay("d")
    /\ UNCHANGED <<caller, pkg_file, found_in, listed>>
    /\ PipeFrame

\* lines 65-71
PkgmkUm ==
    /\ pc = "um"
    /\ \E rc \in ExitCodes, missing \in BOOLEAN :
         LET next == AfterUm(rc, missing, caller)
         IN /\ Log("um", rc, missing)
            /\ passed' = passed \cup ChecksumPassed(next)
            /\ Goto(next)
    /\ UNCHANGED <<caller, pkg_file, found_in, listed>>
    /\ PipeFrame

\* lines 75-88
PkgmkUmDownload ==
    /\ pc = "um_d"
    /\ \E rc \in ExitCodes :
         /\ Log("um_d", rc, FALSE)
         /\ passed' = passed
         /\ Goto(AfterUmDownload(rc, caller))
    /\ UNCHANGED <<caller, pkg_file, found_in, listed>>
    /\ PipeFrame

\* lines 80-91: the stderr of the retry is printed, never inspected
PkgmkUmRetry ==
    /\ pc = "um_retry"
    /\ \E rc \in ExitCodes :
         LET next == AfterUmRetry(rc, caller)
         IN /\ Log("um_retry", rc, FALSE)
            /\ passed' = passed \cup ChecksumPassed(next)
            /\ Goto(next)
    /\ UNCHANGED <<caller, pkg_file, found_in, listed>>
    /\ PipeFrame

\* lines 95-98: check_and_download_source, first download; on failure it
\* calls update_pkgfile_with_new_md5 itself.
PkgmkDownload ==
    /\ pc = "d"
    /\ \E rc \in ExitCodes :
         /\ Log("d", rc, FALSE)
         /\ passed' = IF rc = 0 THEN passed \cup {"source"} ELSE passed
         /\ caller' = IF AfterDownload(rc) = "um"
                      THEN "check_and_download_source" ELSE caller
         /\ Goto(AfterDownload(rc))
    /\ UNCHANGED <<pkg_file, found_in, listed>>
    /\ PipeFrame

\* lines 100-105
PkgmkDownloadRetry ==
    /\ pc = "d_retry"
    /\ \E rc \in ExitCodes :
         /\ Log("d_retry", rc, FALSE)
         /\ passed' = IF rc = 0 THEN passed \cup {"source"} ELSE passed
         /\ Goto(AfterDownloadRetry(rc))
    /\ UNCHANGED <<caller, pkg_file, found_in, listed>>
    /\ PipeFrame

\* lines 123-127: sudo pkgmk -if, run in the current working directory
Build ==
    /\ pc = "build"
    /\ \E rc \in ExitCodes :
         /\ Log("build", rc, FALSE)
         /\ passed' = IF rc = 0 THEN passed \cup {"build"} ELSE passed
         /\ Goto(AfterBuild(rc))
    /\ UNCHANGED <<caller, pkg_file, found_in, listed>>
    /\ PipeFrame


\* ----------------------------------------------------------- artifact lookup
\* A file name <stem>#<ver><ext>; ver and ext are sequences of character codes.
TarGz == <<46, 112, 107, 103, 46, 116, 97, 114, 46, 103, 122>>   \* ".pkg.tar.gz"
Txt == <<46, 116, 120, 116>>                                      \* ".txt"
File(stem, ver, ext) == [stem |-> stem, ver |-> ver, ext |-> ext]

\* What a directory listing may hold for a port: builds 9 and 10 of it and
\* one more file, which for the first port is a text file of it (right
\* prefix, wrong suffix) and for the others a build of some other port
\* (wrong prefix, right suffix).
DirFiles(n) ==
    {File(n, <<57>>, TarGz), File(n, <<49, 48>>, TarGz),
     IF n = AllNames[1] THEN File(n, <<57>>, Txt) ELSE File("other", <<57>>, TarGz)}

\* The part of the name after "<stem>#".
NameTail(f) == f.ver \o f.ext

\* Python's order on strings with a common prefix: s < t
RECURSIVE LexLess(_, _)
LexLess(s, t) ==
    IF t = <<>> THEN FALSE
    ELSE IF s = <<>> THEN TRUE
    ELSE IF s[1] # t[1] THEN s[1] < t[1]
    ELSE LexLess(SubSeq(s, 2, Len(s)), SubSeq(t, 2, Len(t)))

\* lines 133, 135: f.startswith(f'{port_name}#') and f.endswith('.pkg.tar.gz')
Candidates(listing, n) == {f \in listing : f.stem = n /\ f.ext = TarGz}

\* lines 130-135: the pkg subdirectory first, then the port directory
PkgFiles(pkg_exists, in_pkg, in_dir, n) ==
    LET first == IF pkg_exists THEN Candidates(in_pkg, n) ELSE {}
    IN IF first # {} THEN first ELSE Candidates(in_dir, n)

\* What one artifact lookup lists: the pkg subdirectory when it exists
\* (line 132), and the port directory when that gave no candidate (line 134).
Listing(pkg_exists, in_pkg, in_dir, n) ==
    [pkg |-> IF pkg_exists THEN Some(in_pkg) ELSE None,
     dir |-> IF pkg_exists /\ Candidates(in_pkg, n) # {} THEN None ELSE Some(in_dir)]

\* Mutant: the sort is ascending, the first name is the least one.
Latest_Ascending(files) ==
    CHOOSE f \in files : \A g \in files : ~LexLess(NameTail(g), NameTail(f))

\* lines 142-143: pkg_files.sort(reverse=True); pkg_files[0]
Latest(files) == CHOOSE f \in files : \A g \in files : ~LexLess(NameTail(f), NameTail(g))

\* line 131: os.path.join(port_dir, 'pkg')
PkgDir(dir) == dir \o <<"pkg">>

\* line 143: os.path.join(port_dir, pkg_files[0])
PkgFilePath(dir, f) == <<dir, f>>

\* lines 129-145: look for the built package.
FindArtifact ==
    /\ pc = "artifact"
    /\ \E pkg_exists \in BOOLEAN, in_pkg \in SUBSET DirFiles(port_name),
          in_dir \in SUBSET DirFiles(port_name) :
         LET pkg_files == PkgFiles(pkg_exists, in_pkg, in_dir, port_name)
             from_pkg == pkg_exists /\ Candidates(in_pkg, port_name) # {}
         IN /\ listed' = Listing(pkg_exists, in_pkg, in_dir, port_name)
            /\ IF pkg_files = {}
               THEN /\ Log("artifact", 1, FALSE)
                    /\ passed' = passed
                    /\ UNCHANGED <<pkg_file, found_in>>
                    /\ Return(FALSE)
               ELSE /\ Log("artifact", 0, FALSE)
                    /\ passed' = passed \cup {"artifact"}
                    /\ pkg_file' = Some(PkgFilePath(port_dir, Latest(pkg_files)))
                    /\ found_in' = IF from_pkg THEN "pkg" ELSE "."
                    /\ Stay("install")
    /\ UNCHANGED caller
    /\ PipeFrame

\* lines 147-156: sudo pkgadd -u pkg_file
Install ==
    /\ pc = "install"
    /\ \E rc \in ExitCodes :
         /\ Log("install", rc, FALSE)
         /\ passed' = IF rc = 0 THEN passed \cup {"install"} ELSE passed
         /\ Goto(AfterInstall(rc))
    /\ listed' = NoListing
    /\ UNCHANGED <<caller, pkg_file, found_in>>
    /\ PipeFrame

\* ------------------------------------------------------------ specification
Next ==
    \/ GetOutdatedPorts
    \/ UpdatePortLocate
    \/ SkipMd5Check
    \/ PkgmkUm
    \/ PkgmkUmDownload
    \/ PkgmkUmRetry
    \/ PkgmkDownload
    \/ PkgmkDownloadRetry
    \/ Build
    \/ FindArtifact
    \/ Install
    \/ Summary
    \/ SaveReport

Spec == Init /\ [][Next]_vars

\* The run of one argument set, the directories being probed under every
\* root of possible_dirs.
UpdatePortLocateAnywhere == UpdatePortLocateIn(Range(possible_dirs))

LocateInit ==
    /\ Init
    /\ args_n = None
    /\ args_skip = {}
    /\ args_list = None
    /\ ~args_skip_md5

LocateNext ==
    \/ GetOutdatedPorts
    \/ UpdatePortLocateAnywhere
    \/ PkgmkUm
    \/ PkgmkUmDownload
    \/ PkgmkUmRetry
    \/ PkgmkDownload
    \/ PkgmkDownloadRetry
    \/ Build
    \/ FindArtifact
    \/ Install
    \/ Summary
    \/ SaveReport

LocateSpec == LocateInit /\ [][LocateNext]_vars

\* The resolver alone, on free-form output of the diff query.
ParseDiff ==
    /\ pc = "main"
    /\ \E rc \in ExitCodes, text \in FreeTexts :
         /\ diff_rc' = rc
         /\ stdout' = text
         /\ outdated_ports' = get_outdated_ports(rc, text)
    /\ pc' = "resolved"
    /\ UNCHANGED <<args, ports_to_update, idx, updated_ports, summary_table,
                   report_file, port_dir, isdir, cwd, caller, pkg_file, ret, found_in,
                   listed, calls, last, entered, passed, all_ok>>

ParseInit ==
    /\ Init
    /\ args_n = None
    /\ args_skip = {}
    /\ args_list = None
    /\ ~args_skip_md5

ParseSpec == ParseInit /\ [][ParseDiff]_vars

\* Every external command returns, and the single thread of main() keeps
\* running until it leaves main.
FairSpec == Spec /\ WF_vars(Next)


\* =================================================================== claims
Statuses == {"Skipped", "Not in list", "Updated", "Failed"}

Names(ports) == [i \in 1..Len(ports) |-> ports[i][1]]

\* The run is over: main has returned.
Ended == ~ENABLED Next

\* The summary has been built.
Summarised == pc \in {"report", "done"}

\* update_port has returned False for the port entered last.
ReturnedFalse == pc \in {"loop", "report", "done"} /\ ~ret

\* The status the summary gives to the i-th resolved record.
RowStatus(i) == summary_table[i][2]

\* F of the filters: the resolved records that pass --skip and --list.
Filtered == FilterList(FilterSkip(outdated_ports, args_skip), args_list)

\* The i-th resolved record is the k-th record of Filtered, or 0.
FilteredPos(i) ==
    IF outdated_ports[i] \notin Range(Filtered) THEN 0
    ELSE Len(FilterList(FilterSkip(SubSeq(outdated_ports, 1, i), args_skip), args_list))

\* C1: a run whose resolved set is not empty ends with a summary holding one
\* row per resolved record, in resolver order, each row with one of the four
\* statuses, whatever the filters and the outcomes of the external actions.
C1_SummaryCoversResolvedSet ==
    /\ (Ended /\ outdated_ports # <<>>) => pc = "done"
    /\ Summarised =>
         /\ Len(summary_table) = Len(outdated_ports)
         /\ \A i \in 1..Len(outdated_ports) :
              /\ summary_table[i][1] = outdated_ports[i][1]
              /\ RowStatus(i) \in Statuses

\* C1 witness: a finished run over two records, one excluded by --skip and
\* one updated, in skip-checksum mode.
C1_Witness ==
    /\ pc = "done"
    /\ args_skip_md5
    /\ Len(outdated_ports) = 2
    /\ RowStatus(1) = "Skipped"
    /\ RowStatus(2) = "Updated"

\* C2 (as claimed): with -n N and more than N survivors of --skip/--list, no
\* record beyond the first N survivors is attempted, and each is listed with
\* a status that is neither Updated nor Failed.  Stated for N >= 1; what
\* -n 0 does is the subject of C3.
C2_TruncatedNeitherUpdatedNorFailed ==
    (Summarised /\ args_n # None /\ args_n # Some(0)) =>
        \A i \in 1..Len(outdated_ports) :
            FilteredPos(i) > args_n[1] =>
                /\ outdated_ports[i][1] \notin Range(entered)
                /\ RowStatus(i) \notin {"Updated", "Failed"}

\* C3 (as claimed): the ports for which update_port is entered are the first
\* min(N, |F|) records of F, in order, for every N >= 0 including 0; without
\* -n they are all of F.
C3_PrefixTruncation ==
    Summarised =>
        entered = Names(IF args_n = None THEN Filtered
                        ELSE SubSeq(Filtered, 1, Min(args_n[1], Len(Filtered))))

C5_NonZeroChecksumUpdateFails ==
    (last.at = "um" /\ last.rc # 0 /\ ~last.missing) => ReturnedFalse


\* C6: one call of update_pkgfile_with_new_md5: the download runs only after a
\* first pkgmk -um that reported the missing source, once and before the
\* second pkgmk -um; a failed download returns failure with no further -um; a
\* good one is followed by exactly one retried -um, whose exit status decides.
C6_ReconcileEscalation ==
    /\ \A i \in 1..Len(calls) :
         /\ calls[i] = "um_d" => (i > 1 /\ calls[i - 1] = "um")
         /\ calls[i] = "um_retry" =>
              (i > 2 /\ calls[i - 1] = "um_d" /\ calls[i - 2] = "um")
    /\ (last.at = "um" /\ last.missing) => pc = "um_d"
    /\ pc = "um_d" => (last.at = "um" /\ last.missing)
    /\ (last.at = "um_d" /\ last.rc # 0) => ReturnedFalse
    /\ (last.at = "um_d" /\ last.rc = 0) => pc = "um_retry"
    /\ pc = "um_retry" => (last.at = "um_d" /\ last.rc = 0)
    /\ (last.at = "um_retry" /\ last.rc # 0) => ReturnedFalse
    /\ (last.at = "um_retry" /\ last.rc = 0) =>
         pc = (IF caller = "update_port" THEN "d" ELSE "d_retry")

\* C6 witness: missing source, good download, good retry: the reconcile has
\* succeeded for update_port after three commands.
C6_Witness ==
    /\ calls = <<"find", "um", "um_d", "um_retry">>
    /\ last.rc = 0
    /\ pc = "d"

\* The steps that must have succeeded before the step at a place is invoked.
Before(at) ==
    CASE at \in {"skip_md5_check", "um", "um_d", "um_retry"} -> {"locate"}
      [] at \in {"d", "d_retry"} -> {"locate", "checksum"}
      [] at = "build" -> {"locate", "checksum", "source"}
      [] at = "artifact" -> {"locate", "checksum", "source", "build"}
      [] at = "install" -> {"locate", "checksum", "source", "build", "artifact"}
      [] OTHER -> {}

C8_SkippedNeverAttempted ==
    /\ Range(entered) \cap args_skip = {}
    /\ Summarised =>
         \A i \in 1..Len(outdated_ports) :
             LET n == outdated_ports[i][1]
             IN /\ n \in args_skip => RowStatus(i) = "Skipped"
                /\ (n \notin args_skip /\ (args_list = None \/ n \in args_list[1]))
                     => RowStatus(i) \in {"Updated", "Failed"}

\* C8 witness: a finished run with a record named in both --skip and --list,
\* and another record that was processed.
C8_Witness ==
    /\ pc = "done"
    /\ args_list # None
    /\ \E i \in 1..Len(outdated_ports) :
         /\ outdated_ports[i][1] \in args_skip \cap args_list[1]
         /\ RowStatus(i) = "Skipped"
    /\ entered # <<>>

\* C9: with --list, a record named neither in --list nor in --skip is never
\* attempted and is listed as Not in list; without --list no record is.
C9_NotInListNeverAttempted ==
    /\ args_list # None => Range(entered) \subseteq args_list[1]
    /\ Summarised =>
         \A i \in 1..Len(outdated_ports) :
             LET n == outdated_ports[i][1]
             IN /\ (args_list # None /\ n \notin args_list[1] /\ n \notin args_skip)
                     => RowStatus(i) = "Not in list"
                /\ args_list = None => RowStatus(i) # "Not in list"

\* C9 witness: a finished run with --list where one record was left out as
\* Not in list and another was processed.
C9_Witness ==
    /\ pc = "done"
    /\ args_list # None
    /\ \E i \in 1..Len(outdated_ports) : RowStatus(i) = "Not in list"
    /\ entered # <<>>

\* C10 (as claimed): in skip-checksum mode pkgmk -um is never invoked for a
\* port, not even inside check_and_download_source.
C10_SkipModeNeverUpdatesChecksum ==
    args_skip_md5 => \A i \in 1..Len(calls) : Cmd(calls[i]) # "pkgmk -um"


\* The places of calls from position i on.
CallsFrom(i) == SubSeq(calls, i, Len(calls))

\* How often a place occurs in a sequence of places.
Count(seq, at) == Cardinality({i \in 1..Len(seq) : seq[i] = at})

\* C11: check_and_download_source downloads once; exit zero ends it with
\* success and no reconcile; otherwise it reconciles exactly once and, only
\* when the reconcile succeeded, downloads a second time, whose exit status
\* decides; a failed reconcile fails the step with no second download.
C11_EnsureSourceEscalation ==
    /\ Count(calls, "d") <= 1
    /\ Count(calls, "d_retry") <= 1
    /\ \A i \in 1..Len(calls) :
         /\ calls[i] = "d" => Count(CallsFrom(i), "um") <= 1
         /\ calls[i] = "d_retry" =>
              /\ calls[i - 1] \in {"um", "um_retry"}
              /\ \E j \in 1..(i - 1) :
                   /\ calls[j] = "d"
                   /\ calls[j + 1] = "um"
                   /\ \A k \in (j + 2)..(i - 1) : calls[k] \in {"um_d", "um_retry"}
    /\ (last.at = "d" /\ last.rc = 0) => pc = "build"
    /\ (last.at = "d" /\ last.rc # 0) =>
         (pc = "um" /\ caller = "check_and_download_source")
    /\ (caller = "check_and_download_source" /\ last.at \in {"um_d", "um_retry"}
          /\ last.rc # 0) => (ReturnedFalse /\ Count(calls, "d_retry") = 0)
    /\ (caller = "check_and_download_source" /\ last.at = "um" /\ ~last.missing)
         => pc = "d_retry"
    /\ (last.at = "d_retry" /\ last.rc = 0) => pc = "build"
    /\ (last.at = "d_retry" /\ last.rc # 0) => ReturnedFalse

\* C11 witness: the first download failed, the reconcile went through its
\* own download and retry, and the second download succeeded.
C11_Witness ==
    /\ calls = <<"find", "um", "d", "um", "um_d", "um_retry", "d_retry">>
    /\ last.rc = 0
    /\ pc = "build"


\* The port update_port was entered for last.
CurrentPort == entered[Len(entered)]

\* The directory in which the artifact lookup found the file it selected.
FoundDir == IF found_in = "pkg" THEN PkgDir(port_dir) ELSE port_dir

\* C12 (as claimed): the path handed to pkgadd names the selected file in the
\* directory where the lookup found it, the pkg subdirectory or the port
\* directory.
C12_InstallPathWhereFound ==
    pkg_file # None => pkg_file[1][1] = FoundDir

\* The artifact lookup is the latest step.
JustLooked == last.at = "artifact"

FilesOf(dir_listing) == IF dir_listing = None THEN {} ELSE dir_listing[1]

\* The candidates of the lookup, when `fits` says which names qualify.
CandidateSet(fits(_)) ==
    LET in_pkg == {f \in FilesOf(listed.pkg) : fits(f)}
    IN IF in_pkg # {} THEN in_pkg ELSE {f \in FilesOf(listed.dir) : fits(f)}

\* The lookup ends as told for the candidate set c: no candidate fails the
\* port with no install, else the greatest name of c goes to the install.
SelectsGreatestOf(c) ==
    IF c = {}
    THEN ReturnedFalse /\ last.rc # 0 /\ Count(calls, "install") = 0
    ELSE /\ pc = "install"
         /\ pkg_file # None
         /\ pkg_file[1][2] \in c
         /\ \A g \in c : ~LexLess(NameTail(pkg_file[1][2]), NameTail(g))

HasPrefix(f) == f.stem = CurrentPort
HasPrefixAndSuffix(f) == f.stem = CurrentPort /\ f.ext = TarGz

\* C13 (as claimed): the candidates are the files whose name starts with
\* <name>#, of the pkg subdirectory or else of the port directory; the
\* greatest name is selected; no candidate fails the port without install.
C13_PrefixCandidates ==
    JustLooked => SelectsGreatestOf(CandidateSet(HasPrefix))

\* C13 (amended): the same with the candidates being the files whose name
\* starts with <name># and ends with .pkg.tar.gz.
C13_ArtifactSelection ==
    /\ JustLooked => SelectsGreatestOf(CandidateSet(HasPrefixAndSuffix))
    /\ Count(calls, "install") > 0 => "artifact" \in passed

\* C13 witness: the pkg subdirectory exists and holds no candidate, the port
\* directory holds builds 9 and 10, and 9 (the greater string) is selected.
C13_Witness ==
    /\ JustLooked
    /\ listed.pkg # None
    /\ CandidateSet(HasPrefixAndSuffix) =
         {File(CurrentPort, <<57>>, TarGz), File(CurrentPort, <<49, 48>>, TarGz)}
    /\ found_in = "."
    /\ pkg_file[1][2] = File(CurrentPort, <<57>>, TarGz)


\* ---------------------------------------------------------------- C14
\* The first three tokens of a line.
FirstThree(line) == <<line.tokens[1], line.tokens[2], line.tokens[3]>>

\* The lines of `text` that are not blank, have 3 tokens or more and do not
\* begin as a header does, `header(text, i)` telling whether line i does.
RecordLines(text, header(_, _)) ==
    {i \in 1..Len(text) :
        ~IsBlank(text[i]) /\ Len(text[i].tokens) >= 3 /\ ~header(text, i)}

\* `records` holds one record per line of `at`, in line order, and no other.
OnePerLineInOrder(records, text, at) ==
    /\ Len(records) = Cardinality(at)
    /\ \A k \in 1..Len(records) :
         LET i == CHOOSE j \in at : Cardinality({h \in at : h < j}) = k - 1
         IN records[k] = FirstThree(text[i])

\* Line i begins with a header prefix, taken as the output has it.
BeginsWithPrefix(text, i) ==
    ~text[i].indent /\ text[i].tokens[1] \in HeaderPrefixes

\* Line i begins with a header prefix once the whitespace around the whole
\* output is removed: the first non-blank line loses its indentation.
BeginsWithPrefixOnceTrimmed(text, i) ==
    /\ text[i].tokens[1] \in HeaderPrefixes
    /\ ~text[i].indent \/ \A j \in 1..(i - 1) : IsBlank(text[j])

Resolved == pc # "main"

\* C14 as stated: the resolved sequence holds, in line order, exactly one
\* record (token 0, token 1, token 2) for each non-blank line of the diff
\* output that has 3 tokens or more and does not start with Port,
\* Differences, ==== or ---, and no other record; a diff query that exits
\* non-zero resolves to the empty sequence.
C14_ResolverParsing ==
    Resolved =>
        IF diff_rc # 0 THEN outdated_ports = <<>>
        ELSE OnePerLineInOrder(outdated_ports, stdout,
                               RecordLines(stdout, BeginsWithPrefix))

\* C14 amended: the same, the header test being made after the whitespace
\* around the whole output is removed, so that an indented first line that
\* reads Port, Differences, ==== or --- yields no record either.
C14_ResolverParsingTrimmed ==
    Resolved =>
        IF diff_rc # 0 THEN outdated_ports = <<>>
        ELSE OnePerLineInOrder(outdated_ports, stdout,
                               RecordLines(stdout, BeginsWithPrefixOnceTrimmed))

\* A header line that yields no record, then an indented data line that does.
C14_Witness ==
    /\ pc = "resolved"
    /\ diff_rc = 0
    /\ stdout = <<Line(FALSE, <<"Port", "pkgA", "1.1">>),
                  Line(TRUE, <<"pkgA", "1.1", "Port">>)>>
    /\ outdated_ports = <<<<"pkgA", "1.1", "Port">>>>

\* ---------------------------------------------------------------- C15
\* update_port has been entered for a port: port_dir and isdir are its own.
Looked == entered # <<>>

\* The directory of `name` under the earliest root of the fixed list that
\* is in `existing`, or None when no root is.
EarliestMatch(name, existing) ==
    IF \A i \in 1..Len(possible_dirs) : possible_dirs[i] \notin existing THEN None
    ELSE LET i == CHOOSE k \in 1..Len(possible_dirs) :
                      /\ possible_dirs[k] \in existing
                      /\ \A j \in 1..(k - 1) : possible_dirs[j] \notin existing
         IN <<possible_dirs[i], name>>

\* C15: for every name and every set of existing directories the locator
\* returns root+name for the earliest root of the fixed list under which the
\* directory exists, and absent when no root holds it; a port whose directory
\* is absent is Failed with no checksum, download, build or install invoked.
C15_FirstMatchWins ==
    Looked =>
        /\ port_dir = EarliestMatch(CurrentPort, isdir)
        /\ port_dir = None =>
             /\ calls = <<"find">>
             /\ ReturnedFalse
             /\ CurrentPort \notin Range(updated_ports)
             /\ Summarised =>
                  \A i \in 1..Len(summary_table) :
                      summary_table[i][1] = CurrentPort => RowStatus(i) = "Failed"

\* C15 witness: the first port has no directory under any root and is listed
\* as Failed with nothing invoked; the directory of the second exists under
\* three roots and the earliest of them was returned.
C15_Witness ==
    /\ Len(entered) = 2
    /\ isdir = {"/usr/ports/xfce4", "/usr/ports/contrib", "/usr/ports/xorg"}
    /\ port_dir = <<"/usr/ports/contrib", entered[2]>>
    /\ pc = "done"
    /\ updated_ports = <<entered[2]>>
    /\ RowStatus(1) = "Failed"

\* A port without a directory: nothing but the lookup has happened for it.
C15_AbsentReached ==
    /\ Looked
    /\ isdir = {}
    /\ port_dir = None
    /\ calls = <<"find">>
    /\ pc = "done"

\* ---------------------------------------------------------------- C16
\* update_port is running: the loop of main waits for it to return.
InPipeline == pc \notin {"main", "exit", "loop", "report", "done"}

\* The rank of the step the i-th call of the current port belongs to:
\* locate, checksum step, ensure-source (its download and every reconcile
\* made on its behalf), build with its artifact lookup, install.
StepRank(i) ==
    CASE calls[i] = "find" -> 1
      [] calls[i] = "skip_md5_check" -> 2
      [] calls[i] \in {"um", "um_d", "um_retry"} ->
            IF \E j \in 1..(i - 1) : calls[j] = "d" THEN 3 ELSE 2
      [] calls[i] \in {"d", "d_retry"} -> 3
      [] calls[i] \in {"build", "artifact"} -> 4
      [] calls[i] = "install" -> 5

\* C16: the survivors enter the pipeline one by one in resolver order, each
\* once; a survivor is entered, and any action invoked for it, only after
\* update_port has returned for every survivor before it; within one port the
\* steps come in the order locate, checksum step, ensure-source, build,
\* install, and install only after the build of the same port exited zero.
C16_StrictlySequential ==
    /\ entered = SubSeq(Names(ports_to_update), 1, Len(entered))
    /\ \A i, j \in 1..Len(entered) : entered[i] = entered[j] => i = j
    /\ InPipeline => (Len(entered) = idx /\ CurrentPort = port_name)
    /\ pc \in {"loop", "report", "done"} => Len(entered) = idx - 1
    /\ (Ended /\ outdated_ports # <<>>) => entered = Names(ports_to_update)
    /\ \A i, j \in 1..Len(calls) : i < j => StepRank(i) <= StepRank(j)
    /\ Count(calls, "find") <= 1
    /\ Count(calls, "skip_md5_check") <= 1
    /\ Count(calls, "build") <= 1
    /\ Count(calls, "install") <= 1
    /\ \A i \in 1..Len(calls) :
         calls[i] = "install" =>
             /\ "build" \in passed
             /\ \E j \in 1..(i - 1) : calls[j] = "build"

\* C16 witness: the second survivor went through every step, with a
\* reconcile inside ensure-source, after the first one had returned.
C16_Witness ==
    /\ Len(entered) = 2
    /\ entered = Names(ports_to_update)
    /\ calls = <<"find", "um", "d", "um", "d_retry", "build", "artifact", "install">>
    /\ pc = "loop"
    /\ ret

\* ---------------------------------------------------------------- C17
\* How often the current port has invoked pkgmk -um and pkgmk -d.
ChecksumUpdates == Count(calls, "um") + Count(calls, "um_retry")
Downloads == Count(calls, "um_d") + Count(calls, "d") + Count(calls, "d_retry")

\* main has returned.
Terminated == pc \in {"exit", "done"}

BoundedRetries ==
    /\ ChecksumUpdates <= 4
    /\ Downloads <= 4
    /\ Count(calls, "build") <= 1
    /\ Count(calls, "install") <= 1

\* C17: every external command returning, a port invokes the checksum update
\* at most 4 times, the download at most 4 times, the build at most once and
\* the install at most once, and the run ends: main returns, which it does
\* only after update_port has returned for every survivor.
C17_BoundedRetriesAndTermination ==
    /\ []BoundedRetries
    /\ <>Terminated

\* C17 witness: a port that used all four checksum updates and all four
\* downloads and then went on to build and install.
C17_Witness ==
    /\ ChecksumUpdates = 4
    /\ Downloads = 4
    /\ Count(calls, "build") = 1
    /\ Count(calls, "install") = 1
    /\ pc = "done"

\* ---------------------------------------------------------------- C18
\* The build command is about to be invoked, or has been, for the current port.
AtBuild == pc = "build" \/ Count(calls, "build") > 0

\* C18: whenever sudo pkgmk -if is invoked the working directory of the
\* process is the directory located for the port being processed, never
\* that of an earlier port, whatever happened to the ports before it.
C18_BuildInLocatedDirectory ==
    AtBuild =>
        /\ port_dir # None
        /\ port_dir[2] = CurrentPort
        /\ cwd = port_dir

\* C18 witness: the first port was built in its directory, the build of the
\* second has just run in the second's directory under another root.
C18_Witness ==
    /\ Len(entered) = 2
    /\ entered[1] \in all_ok
    /\ last.at = "build"
    /\ cwd = <<"/usr/ports/contrib", entered[2]>>
    /\ isdir = {"/usr/ports/contrib"}

\* The port before the current one had no directory and the working
\* directory was left alone; the current one is built in its own.
C18_AfterFailedLookup ==
    /\ Len(entered) = 2
    /\ updated_ports = <<>>
    /\ entered[1] \notin all_ok
    /\ last.at = "build"
    /\ cwd = port_dir

\* ---------------------------------------------------------------- C19
\* C19: when the resolved set is empty, the diff query having exited non-zero
\* or no line of its output having yielded a record, the run ends with no
\* locate, checksum, download, build or install invoked and no report written.
C19_EmptyResolvedSetEndsRun ==
    (Resolved /\ outdated_ports = <<>>) =>
        /\ pc = "exit"
        /\ Ended
        /\ entered = <<>>
        /\ calls = <<>>
        /\ last = NoCall
        /\ summary_table = <<>>
        /\ report_file = None

\* C19 witness: the diff query exited zero and printed its headers only.
C19_Witness ==
    /\ pc = "exit"
    /\ diff_rc = 0
    /\ stdout = DiffText(<<>>)
    /\ outdated_ports = <<>>

\* The diff query exited non-zero having printed rows: nothing is resolved.
C19_DiffFailed ==
    /\ pc = "exit"
    /\ diff_rc # 0
    /\ stdout = DiffText(<<"pkgA">>)
    /\ outdated_ports = <<>>

====
